---- MODULE Spec2Model ----
(***************************************************************************)
(* RideFlow cross-tab chat synchronisation.                                *)
(*                                                                         *)
(* Two browser tabs share localStorage: the customer tab runs              *)
(* ChatSyncBridge (src/shared/chat-sync.js:456-636), the driver tab runs   *)
(* ChatSync (src/shared/chat-sync.js:300-451) under the driver dashboard   *)
(* (src/driver-dashboard/app.js).  Every handler of a tab runs to          *)
(* completion (one action); the tabs interleave handler by handler.        *)
(*                                                                         *)
(* Time: timestamps are the fixed-width strings of Date.toISOString(),     *)
(* whose lexicographic order is the order of the instants; an instant is   *)
(* modelled by an integer, 0 being new Date(0).  One unit is one minute    *)
(* (the back-dating step of activateOrderMessaging); two events at the     *)
(* same value of now carry the same timestamp string.                      *)
(*                                                                         *)
(* Specifications: SpecBridge (customer channel against the driver side's  *)
(* writes and clears), SpecAppend (customer channel, driver side appending *)
(* only), SpecDriver (dashboard and ChatSync against the customer tab),    *)
(* SpecStore (message log and unread map under every writer).              *)
(***************************************************************************)
EXTENDS Integers, Sequences, FiniteSets, TLC

\* ---------------------------------------------------------------- bounds
MaxTime      == 5
MaxLog       == 2
MaxUnread    == 2
MaxDelivered == 3
MaxCounter   == 12
MaxInits     == 1
MaxClears    == 1
MaxDisplay   == 5
MaxBackDate  == 1
MaxTimers    == 1
MaxInput     == 2
MaxReinits   == 2
MaxOrders    == 3
MaxAccepts   == 2
MaxGen       == 1

\* ------------------------------------------------------ program constants
CHAT_CHANNEL  == "ORD-DEMO"
DEMO_ORDER_ID == "ORD-DEMO"
MOCK_ORDER    == "ORD-7821"
OrderIds      == {CHAT_CHANNEL, MOCK_ORDER}
SIMULATED_NEW_ORDER == "ORD-7822"
ENABLED_SERVICES == <<"ride", "package", "food">>
Services      == {"ride", "package", "food"}
MOCK_ORDERS   == << [id |-> MOCK_ORDER, status |-> "incoming"],
                    [id |-> "ORD-7820", status |-> "incoming"] >>
EpochZero     == 0
MsgIdCounterStart == 10
Senders       == {"customer", "driver", "system"}

NoConv  == [absent |-> TRUE]
Tabs    == {"customer", "driver"}
Idle    == [idle |-> TRUE]
NoOrder == "null"
Undef   == -1

VARIABLES
  now,                \* Date.now()
  chats,              \* localStorage['rideflow-chats']
  unreadMap,          \* localStorage['rideflow-unread-messages']
  genSeq,             \* number of ids drawn from _genId
  bridgeOrderId,      \* ChatSyncBridge._activeOrderId
  lastSeenTs,         \* ChatSyncBridge._lastSeenTs
  seenCount,          \* ChatSyncBridge._seenCount
  bridgeInits,        \* timers/listeners registered by ChatSyncBridge.init
  lastSeenTimestamp,  \* ChatSync._lastSeenTimestamp
  syncInits,          \* timers/listeners registered by ChatSync.init
  activeOrderId,      \* driver state.activeOrderId
  messages,           \* driver state.messages
  msgIdCounter,       \* driver state.msgIdCounter
  hideTimers,         \* pending 2 s timeouts set by completeTrip
  delivered,          \* calls of _onDriverMessage since the last init
  clearedCalls,       \* calls of _onChatCleared
  notified,           \* calls of _onNewMessage since the last init
  epoch,              \* number of history clears executed so far
  inflight,           \* per tab: the blob a send has read and not yet written back
  orders,             \* driver state.orders: id and status, first to last
  orderStep,          \* driver state.orderStep
  enabledServices,    \* driver state.enabledServices, in list order
  hist                \* bookkeeping of the scenario each property speaks about

vars == <<now, chats, unreadMap, genSeq, bridgeOrderId, lastSeenTs, seenCount,
          bridgeInits, lastSeenTimestamp, syncInits, activeOrderId, messages,
          msgIdCounter, hideTimers, delivered, clearedCalls, notified, epoch,
          inflight, orders, orderStep, enabledServices, hist>>

\* ------------------------------------------------------------ data shapes
Times == 1..MaxTime

\* Message ids: 'msg-...' from _genId, 'drv-<n>' / 'drv-img-<n>' / 'init-<n>'
\* from the driver dashboard, numbers for the driver's local entries.
GenId(n)    == <<"msg", n>>
DrvId(n)    == <<"drv", n>>
DrvImgId(n) == <<"drv-img", n>>
InitId(n)   == <<"init", n>>
LocalId(n)  == <<"n", n>>

\* A stored message.  gen is bookkeeping: the number of history clears that
\* had been executed when the message was inserted.
Msg(id, sender, type, ts, read) ==
  [id |-> id, sender |-> sender, type |-> type, timestamp |-> ts,
   read |-> read, gen |-> epoch]

\* (chats[orderId] && chats[orderId].messages) || []
GetMessages(ch, o) == IF ch[o] = NoConv THEN <<>> ELSE ch[o].messages

\* the record created by sendMessage / _persist / addMessage for a new id
NewConv(t) == [messages |-> <<>>, createdAt |-> t, lastMessageTime |-> t]

\* messages.some(m => m.id === id)
HasId(msgs, id) == \E i \in 1..Len(msgs) : msgs[i].id = id

\* the number of stored messages, the seed messages of
\* activateOrderMessaging ('init-<n>') not counted
Sent(msgs) == Cardinality({i \in 1..Len(msgs) : msgs[i].id[1] # "init"})
TotalStored(ch) == LET RECURSIVE Sum(_)
                       Sum(S) == IF S = {} THEN 0
                                 ELSE LET o == CHOOSE x \in S : TRUE
                                      IN Sent(GetMessages(ch, o)) + Sum(S \ {o})
                   IN Sum(OrderIds)

\* unread[orderId] || 0
GetUnreadCount(un, o) == un[o]

\* a counter that steps by two
IncrementUnreadTwice(un, o) == [un EXCEPT ![o] = @ + 2]

\* unread[orderId] = (unread[orderId] || 0) + 1
IncrementUnread(un, o) == [un EXCEPT ![o] = @ + 1]

\* delete unread[orderId]
ClearUnread(un, o) == [un EXCEPT ![o] = 0]

\* a send that appends without looking for the id
SendMessageChatsNoDedup(ch, o, msg, t) ==
  LET c0 == IF ch[o] = NoConv THEN NewConv(t) ELSE ch[o]
  IN [ch EXCEPT ![o] = [c0 EXCEPT !.messages = Append(@, msg),
                                  !.lastMessageTime = msg.timestamp]]

\* ChatSync.sendMessage, the conversations blob it writes back
SendMessageChats(ch, o, msg, t) ==
  LET c0 == IF ch[o] = NoConv THEN NewConv(t) ELSE ch[o]
      c1 == IF HasId(c0.messages, msg.id)
            THEN c0
            ELSE [c0 EXCEPT !.messages = Append(@, msg),
                            !.lastMessageTime = msg.timestamp]
  IN [ch EXCEPT ![o] = c1]

\* ChatSync.sendMessage, the unread map it writes back
SendMessageUnread(un, o, msg) ==
  IF msg.sender # "driver" THEN IncrementUnread(un, o) ELSE un

\* an addMessage that stamps the record on a repeated id as well
AddMessageStampAlways(ch, o, msg, t) ==
  LET c0 == IF ch[o] = NoConv THEN NewConv(t) ELSE ch[o]
  IN IF HasId(c0.messages, msg.id)
     THEN [ch EXCEPT ![o] = [c0 EXCEPT !.lastMessageTime = msg.timestamp]]
     ELSE [ch EXCEPT ![o] = [c0 EXCEPT !.messages = Append(@, msg),
                                      !.lastMessageTime = msg.timestamp]]

\* Storage.addMessage: writes only when the id is new
AddMessage(ch, o, msg, t) ==
  LET c0 == IF ch[o] = NoConv THEN NewConv(t) ELSE ch[o]
  IN IF HasId(c0.messages, msg.id)
     THEN ch
     ELSE [ch EXCEPT ![o] = [c0 EXCEPT !.messages = Append(@, msg),
                                      !.lastMessageTime = msg.timestamp]]

\* ChatSyncBridge._persist, the conversations blob it writes back
PersistChats(ch, o, msg, t) ==
  LET c0 == IF ch[o] = NoConv THEN NewConv(t) ELSE ch[o]
  IN [ch EXCEPT ![o] = [c0 EXCEPT !.messages = Append(@, msg),
                                  !.lastMessageTime = msg.timestamp]]

\* a clear that removes the unread entry as well
DeleteUnreadCleared(un, o) == [un EXCEPT ![o] = 0]

\* deleteChatHistory (ChatSync, ChatSyncBridge, API.Chat): the unread map
\* is neither read nor written
DeleteUnread(un, o) == un

\* a clear that drops the conversation record
ClearChatsDropRecord(ch, o, t) == [ch EXCEPT ![o] = NoConv]

\* deleteChatHistory (ChatSync, ChatSyncBridge): the blob written back
ClearChats(ch, o, t) ==
  IF ch[o] = NoConv THEN ch
  ELSE [ch EXCEPT ![o] = [@ EXCEPT !.messages = <<>>, !.lastMessageTime = t]]

\* msgs.length ? msgs[msgs.length - 1].timestamp : new Date(0).toISOString()
LastTimestamp(msgs) ==
  IF Len(msgs) > 0 THEN msgs[Len(msgs)].timestamp ELSE EpochZero

\* _lastSeenTs[orderId] || new Date(0).toISOString()
SeenOr(m, o) == IF m[o] = Undef THEN EpochZero ELSE m[o]

\* _seenCount[orderId] || 0
CountOr(m, o) == IF m[o] = Undef THEN 0 ELSE m[o]

\* a filter that lets a timestamp equal to the watermark through
FreshDriverInclusive(msgs, lastTs) ==
  SelectSeq(msgs, LAMBDA m : m.sender = "driver" /\ m.timestamp >= lastTs)

\* msgs.filter(m => m.sender === 'driver' && m.timestamp > lastTs)
FreshDriver(msgs, lastTs) ==
  SelectSeq(msgs, LAMBDA m : m.sender = "driver" /\ m.timestamp > lastTs)

\* a filter that lets a timestamp equal to the watermark through
NewMsgsInclusive(msgs, lastSeen) ==
  SelectSeq(msgs, LAMBDA m : m.timestamp >= lastSeen)

\* msgs.filter(m => m.timestamp > lastSeen)
NewMsgs(msgs, lastSeen) ==
  SelectSeq(msgs, LAMBDA m : m.timestamp > lastSeen)

\* _lastSeenTs[orderId] = fresh[fresh.length - 1].timestamp
Watermark(fresh) == fresh[Len(fresh)].timestamp

\* INITIAL_MESSAGES of the driver dashboard: id, from, read
INITIAL_MESSAGES ==
  << [id |-> 1, from |-> "system",   read |-> FALSE],
     [id |-> 2, from |-> "customer", read |-> FALSE],
     [id |-> 3, from |-> "driver",   read |-> TRUE],
     [id |-> 4, from |-> "customer", read |-> FALSE] >>

\* the first instant: late enough for the back-dated seed messages to lie
\* after the epoch
NowStart == Len(INITIAL_MESSAGES)

\* an entry of the driver's state.messages
Local(id, from) == [id |-> id, from |-> from]

\* _syncMsgToLocal
SyncMsgToLocal(m) == Local(m.id, m.sender)

\* ids and timestamps a caller of the exported functions may pass
CallerIds      == {DrvId(MsgIdCounterStart + 1), InitId(2)}
CallerTimes(t) == {x \in Times : t - MaxBackDate <= x /\ x <= t}

\* ----------------------------------------------------------- bookkeeping
IdsWhere(ins, P(_)) == {ins[i].id : i \in {j \in 1..Len(ins) : P(ins[j])}}
IsDriverMsg(m) == m.sender = "driver"
IsOtherMsg(m)  == m.sender # "driver"
IsCustMsg(m)   == m.sender = "customer"
Count(seq, id) == Cardinality({i \in 1..Len(seq) : seq[i].id = id})
MaxTs(ins, P(_), dflt) ==
  LET S == {ins[i].timestamp : i \in {j \in 1..Len(ins) : P(ins[j])}}
  IN IF S = {} THEN dflt ELSE CHOOSE x \in S : \A y \in S : y <= x
Increasing(ins, P(_), from) ==
  LET I == {j \in 1..Len(ins) : P(ins[j])}
  IN /\ \A i \in I : ins[i].timestamp > from
     /\ \A i, j \in I : i < j => ins[i].timestamp < ins[j].timestamp

HistInit(track) ==
  [track |-> track,
   bOwed |-> {}, bNoClear |-> TRUE, bSynced |-> TRUE,
   sOwed |-> {}, sNoClear |-> TRUE, sSynced |-> TRUE,
   bQuiet |-> FALSE, sQuiet |-> FALSE, bPending |-> FALSE,
   bMono |-> FALSE, bLastTs |-> EpochZero,
   bFresh |-> FALSE, sFresh |-> FALSE,
   threw |-> FALSE, ownGen |-> Undef, done |-> {}, late |-> {}, bMissed |-> FALSE, blank |-> FALSE,
   cDel |-> "none", dDel |-> "none",
   custSent |-> [o \in OrderIds |-> 0],
   exact |-> [o \in OrderIds |-> TRUE]]

\* the messages of ins that arrive at or below the watermark a channel
\* holds for conversation o, with the number of clears the customer channel
\* has reported so far
LateOf(o, ins) ==
  {[ch |-> "bridge", m |-> ins[i], calls |-> clearedCalls] :
     i \in {j \in 1..Len(ins) :
              /\ bridgeOrderId = o
              /\ ins[j].sender = "driver"
              /\ ins[j].timestamp <= SeenOr(lastSeenTs, o)}}
  \cup
  {[ch |-> "sync", m |-> ins[i], calls |-> 0] :
     i \in {j \in 1..Len(ins) :
              /\ syncInits > 0
              /\ ins[j].sender # "driver"
              /\ ins[j].timestamp <= SeenOr(lastSeenTimestamp, o)}}

\* A handler of tab `tab` wrote conversation o: it executed a history clear
\* (clear), then inserted the messages ins; extra tells that it incremented
\* the unread counter without inserting a customer message.  Each
\* specification keeps the books of its own properties only (track).
HistWrite(h, o, ins, clear, extra, tab) ==
  LET nCust == Cardinality({i \in 1..Len(ins) : IsCustMsg(ins[i])})
      drv   == IdsWhere(ins, IsDriverMsg)
      oth   == IdsWhere(ins, IsOtherMsg)
      seen1 == bridgeInits > 0 /\ CountOr(seenCount, o) >= 1
  IN IF h.track = "store"
     THEN [h EXCEPT !.custSent[o] = @ + nCust, !.exact[o] = @ /\ ~extra]
     ELSE IF o # CHAT_CHANNEL THEN h
     ELSE IF h.track = "late"
     THEN [h EXCEPT !.late = (IF clear THEN {} ELSE @) \cup LateOf(o, ins)]
     ELSE IF h.track = "bridge"
     THEN [h EXCEPT
       !.bOwed    = IF bridgeInits > 0 THEN @ \cup drv ELSE @,
       !.bNoClear = @ /\ ~clear,
       !.bSynced  = @ /\ drv = {},
       !.bQuiet   = FALSE,
       !.bFresh   = FALSE,
       !.bPending = IF clear /\ tab # "customer" /\ seen1 THEN TRUE ELSE @,
       !.bMono    = @ /\ ~clear /\ Increasing(ins, IsDriverMsg, h.bLastTs),
       !.bLastTs  = MaxTs(ins, IsDriverMsg, @),
       !.dDel     = IF clear /\ tab # "customer" /\ seen1 /\ Len(ins) = 0
                     THEN "deleted" ELSE "none"]
     ELSE [h EXCEPT
       !.sOwed    = IF syncInits > 0 THEN @ \cup oth ELSE @,
       !.sNoClear = @ /\ ~clear,
       !.sSynced  = @ /\ oth = {},
       !.sQuiet   = FALSE,
       !.sFresh   = FALSE,
       !.cDel     = IF clear /\ tab = "customer" /\ syncInits > 0 /\ Len(ins) = 0
                     THEN "deleted" ELSE "none"]

\* markAllRead(o) was executed
HistRead(h, o) ==
  IF h.track = "store" THEN [h EXCEPT !.custSent[o] = 0, !.exact[o] = TRUE] ELSE h

\* ChatSyncBridge.init ran on the log msgs
HistBridgeInit(h, msgs) ==
  IF h.track = "late"
  THEN [h EXCEPT !.late = {x \in @ : x.ch # "bridge"}]
  ELSE IF h.track # "bridge" THEN h
  ELSE [h EXCEPT !.bOwed = {}, !.bNoClear = TRUE, !.bSynced = TRUE,
                 !.bQuiet = FALSE, !.bPending = FALSE, !.bFresh = TRUE,
                 !.ownGen = Undef, !.bMissed = FALSE,
                 !.bMono = (Len(msgs) = 0), !.bLastTs = EpochZero,
                 !.dDel = "none"]

\* a pass of _checkForDriverMessages ran
HistBridgePass(h, shrank, fresh) ==
  IF h.track # "bridge" THEN h
  ELSE [h EXCEPT !.bSynced = TRUE,
                 !.bQuiet = @ \/ (~shrank /\ Len(fresh) > 0),
                 !.bPending = FALSE,
                 !.bMissed = @ \/ (h.bPending /\ ~shrank),
                 !.dDel = IF @ = "deleted"
                          THEN (IF shrank THEN "notified" ELSE "missed")
                          ELSE @]

\* ChatSync.init ran
HistSyncInit(h) ==
  IF h.track = "late"
  THEN [h EXCEPT !.late = {x \in @ : x.ch # "sync"}]
  ELSE IF h.track # "driver" THEN h
  ELSE [h EXCEPT !.sOwed = {}, !.sNoClear = TRUE, !.sSynced = TRUE,
                 !.sQuiet = FALSE, !.sFresh = TRUE, !.cDel = "none"]

\* a pass of _checkForNewMessages ran
HistSyncPass(h, newMsgs) ==
  IF h.track # "driver" THEN h
  ELSE [h EXCEPT !.sSynced = TRUE,
                 !.sQuiet = @ \/ Len(newMsgs) > 0,
                 !.cDel = IF @ = "deleted" THEN "passed" ELSE @]

\* the driver's own handler changed state.messages
HistLocal(h) == IF h.track # "driver" THEN h ELSE [h EXCEPT !.cDel = "none"]

\* ------------------------------------------------------------------ Init
InitWith(track) ==
  /\ now = NowStart
  /\ chats = [o \in OrderIds |-> NoConv]
  /\ unreadMap = [o \in OrderIds |-> 0]
  /\ genSeq = 0
  /\ bridgeOrderId = NoOrder
  /\ lastSeenTs = [o \in OrderIds |-> Undef]
  /\ seenCount = [o \in OrderIds |-> Undef]
  /\ bridgeInits = 0
  /\ lastSeenTimestamp = [o \in OrderIds |-> Undef]
  /\ syncInits = 0
  /\ activeOrderId = NoOrder
  /\ messages = <<>>
  /\ msgIdCounter = MsgIdCounterStart
  /\ hideTimers = 0
  /\ delivered = <<>>
  /\ clearedCalls = 0
  /\ notified = <<>>
  /\ epoch = 0
  /\ inflight = [t \in Tabs |-> Idle]
  /\ orders = MOCK_ORDERS
  /\ orderStep = "pickup"
  /\ enabledServices = ENABLED_SERVICES
  /\ hist = HistInit(track)

storageVars == <<chats, unreadMap>>
bridgeVars  == <<bridgeOrderId, lastSeenTs, seenCount, bridgeInits, delivered,
                 clearedCalls, genSeq>>
syncVars    == <<lastSeenTimestamp, syncInits, notified>>
driverVars  == <<activeOrderId, messages, msgIdCounter, hideTimers>>

\* the clock advances
Tick ==
  /\ now < MaxTime
  /\ now' = now + 1
  /\ UNCHANGED <<storageVars, bridgeVars, syncVars, driverVars, epoch, hist,
               inflight, orders, orderStep, enabledServices>>

\* ------------------------------------------- customer tab: ChatSyncBridge
\* ChatSyncBridge.init(DEMO_ORDER_ID, userId, onDriverMessage, onChatCleared),
\* called at most k times
BridgeInitUpTo(k) ==
  LET o    == DEMO_ORDER_ID
      msgs == GetMessages(chats, o)
  IN /\ bridgeInits < k
     /\ bridgeOrderId' = o
     /\ lastSeenTs' = [lastSeenTs EXCEPT ![o] = LastTimestamp(msgs)]
     /\ seenCount' = [seenCount EXCEPT ![o] = Len(msgs)]
     /\ bridgeInits' = bridgeInits + 1
     /\ delivered' = <<>>
     /\ hist' = HistBridgeInit(hist, msgs)
     /\ UNCHANGED <<now, enabledServices, orders, orderStep, inflight, storageVars, genSeq, clearedCalls, syncVars,
                    driverVars, epoch>>

BridgeInit == BridgeInitUpTo(MaxInits)

\* the values of an input field: strings of blanks and letters
ChatInputs ==
  UNION {[1..n -> {" ", "a"}] : n \in 0..MaxInput}

\* String.prototype.trim: leading and trailing white space removed
RECURSIVE TrimStart(_)
TrimStart(str) ==
  IF Len(str) > 0 /\ Head(str) = " " THEN TrimStart(Tail(str)) ELSE str
RECURSIVE TrimEnd(_)
TrimEnd(str) ==
  IF Len(str) > 0 /\ str[Len(str)] = " "
  THEN TrimEnd(SubSeq(str, 1, Len(str) - 1)) ELSE str
Trim(str) == TrimEnd(TrimStart(str))

\* the content handed to the last sendTextMessage call was empty or
\* white space
HistText(h, text) ==
  IF h.track = "empty" THEN [h EXCEPT !.blank = (Len(Trim(text)) = 0)] ELSE h

\* ChatSyncBridge._persist(msg) for a message built by sendTextMessage /
\* sendImageMessage from the content text: id from _genId, sender
\* 'customer', timestamp now
BridgeSendText(type, text) ==
  IF bridgeOrderId = NoOrder
  THEN UNCHANGED vars
  ELSE LET o   == bridgeOrderId
           msg == Msg(GenId(genSeq + 1), "customer", type, now, FALSE)
       IN /\ TotalStored(chats) < MaxLog
          /\ unreadMap[o] < MaxUnread
          /\ genSeq < MaxGen
          /\ genSeq' = genSeq + 1
          /\ chats' = PersistChats(chats, o, msg, now)
          /\ unreadMap' = IncrementUnread(unreadMap, o)
          /\ hist' = HistText(HistWrite(hist, o, <<msg>>, FALSE, FALSE,
                                        "customer"), text)
          /\ UNCHANGED <<now, enabledServices, orders, orderStep, inflight, bridgeOrderId, lastSeenTs, seenCount, bridgeInits,
                         delivered, clearedCalls, syncVars, driverVars, epoch>>

\* the same for a content that is not looked at
BridgeSend(type) == BridgeSendText(type, <<"a">>)

\* ChatSyncBridge.sendTextMessage(text)
SendTextMessage == BridgeSend("text")

\* ChatSyncBridge.sendImageMessage(dataUrl, fileName)
SendImageMessage == BridgeSend("image")

\* a reset of the seen pointer to the current time
ResetSeenToNow(m, o) == [m EXCEPT ![o] = now]

\* _lastSeenTs[orderId] = new Date(0).toISOString()
ResetSeen(m, o) == [m EXCEPT ![o] = EpochZero]

\* a count test that also fires when the log is as long as it was
CountShrankOrEqual(len, seen) == len <= seen

\* msgs.length < seenCount
CountShrank(len, seen) == len < seen

\* ChatSyncBridge._checkForDriverMessages(orderId), run by the storage
\* listener and by the 1.5 s interval registered in init;
\* readOk = FALSE is the pass whose _readChats caught an exception (a failed
\* or unparsable read) and returned {}
BridgePass(readOk) ==
  LET o      == DEMO_ORDER_ID
      msgs   == IF readOk THEN GetMessages(chats, o) ELSE <<>>
      lastTs == SeenOr(lastSeenTs, o)
      seen   == CountOr(seenCount, o)
      fresh  == FreshDriver(msgs, lastTs)
      shrank == CountShrank(Len(msgs), seen)
  IN /\ bridgeInits > 0
     /\ Len(delivered) + Len(fresh) <= MaxDelivered
     /\ IF shrank
        THEN /\ lastSeenTs' = ResetSeen(lastSeenTs, o)
             /\ seenCount' = [seenCount EXCEPT ![o] = 0]
             /\ clearedCalls' = clearedCalls + 1
             /\ delivered' = delivered
        ELSE /\ seenCount' = [seenCount EXCEPT ![o] = Len(msgs)]
             /\ clearedCalls' = clearedCalls
             /\ IF Len(fresh) = 0
                THEN UNCHANGED <<lastSeenTs, delivered>>
                ELSE /\ lastSeenTs' = [lastSeenTs EXCEPT ![o] = Watermark(fresh)]
                     /\ delivered' = delivered \o fresh
     /\ hist' = IF readOk THEN HistBridgePass(hist, shrank, fresh) ELSE hist
     /\ UNCHANGED <<now, enabledServices, orders, orderStep, inflight, storageVars, genSeq, bridgeOrderId, bridgeInits,
                    syncVars, driverVars, epoch>>

CheckForDriverMessages == BridgePass(TRUE)

\* the same pass when getItem / JSON.parse fails: _readChats returns {}
CheckForDriverMessagesReadFailed ==
  /\ clearedCalls < MaxClears
  /\ BridgePass(FALSE)

\* the clears are counted for the properties of the channels only
CountsClears == hist.track # "store"

\* a delete that keeps the observed count
KeepCount(m, o) == m

\* _seenCount[target] = 0
ResetCount(m, o) == [m EXCEPT ![o] = 0]

\* ChatSyncBridge.getHistory()
GetHistory ==
  IF bridgeOrderId = NoOrder THEN <<>> ELSE GetMessages(chats, bridgeOrderId)

\* a target that falls back to the demo conversation
DeleteTargetDemo(arg, active) == IF arg # NoOrder THEN arg ELSE DEMO_ORDER_ID

\* orderId || _activeOrderId
DeleteTarget(arg, active) == IF arg # NoOrder THEN arg ELSE active

\* ChatSyncBridge.deleteChatHistory(orderId); arg = NoOrder is the call
\* without an argument
BridgeDeleteChatHistory(arg) ==
  LET target == DeleteTarget(arg, bridgeOrderId)
  IN IF target = NoOrder
     THEN UNCHANGED vars
     ELSE /\ CountsClears => epoch < MaxClears
          /\ chats' = ClearChats(chats, target, now)
          /\ lastSeenTs' = [lastSeenTs EXCEPT ![target] = now]
          /\ seenCount' = ResetCount(seenCount, target)
          /\ epoch' = IF CountsClears THEN epoch + 1 ELSE epoch
          /\ hist' = [HistWrite(hist, target, <<>>, TRUE, FALSE, "customer")
                        EXCEPT !.bPending = FALSE, !.dDel = "none",
                               !.ownGen = IF hist.track = "bridge"
                                          THEN epoch + 1 ELSE @]
          /\ unreadMap' = DeleteUnread(unreadMap, target)
          /\ UNCHANGED <<now, enabledServices, orders, orderStep, inflight, genSeq, bridgeOrderId, bridgeInits,
                         delivered, clearedCalls, syncVars, driverVars>>

\* --------------------------------------------- driver tab: ChatSync + app
\* the three non-system INITIAL_MESSAGES as activateOrderMessaging persists
\* them: id 'init-<id>', timestamp now - (length - idx) minutes
InitialSends(t) ==
  LET n == Len(INITIAL_MESSAGES)
  IN [k \in 1..(n - 1) |->
        LET m == INITIAL_MESSAGES[k + 1]
        IN Msg(InitId(m.id), m.from, "text", t - (n - k), m.read)]

\* ChatSync.sendMessage applied to each message of a list in turn
RECURSIVE SendAllChats(_, _, _, _)
SendAllChats(ch, o, list, t) ==
  IF Len(list) = 0 THEN ch
  ELSE SendAllChats(SendMessageChats(ch, o, Head(list), t), o, Tail(list), t)

RECURSIVE SendAllUnread(_, _, _)
SendAllUnread(un, o, list) ==
  IF Len(list) = 0 THEN un
  ELSE SendAllUnread(SendMessageUnread(un, o, Head(list)), o, Tail(list))

\* the listener acceptOrder passes to ChatSync.init, applied to the
\* messages of one pass: drops driver messages, and everything when no
\* order is active; the rest goes to appendSyncedMessage
Listener(list, active) ==
  LET kept == SelectSeq(list, LAMBDA m : m.sender # "driver" /\ active # NoOrder)
  IN [i \in 1..Len(kept) |-> SyncMsgToLocal(kept[i])]

\* acceptOrder(orderId): activateOrderMessaging, then ChatSync.init
\* state.orders.find(o => o.id === orderId): is there such an order
HasOrder(os, orderId) == \E i \in 1..Len(os) : os[i].id = orderId

\* acceptOrder lines 681-686: the other incoming orders are declined and
\* filtered out, the accepted one becomes 'active'; an order that is
\* already 'active' or 'completed' is left as it is
AcceptedOrders(os, orderId) ==
  LET kept == SelectSeq(os, LAMBDA x : x.id = orderId \/ x.status # "incoming")
  IN [i \in 1..Len(kept) |->
        IF kept[i].id = orderId THEN [kept[i] EXCEPT !.status = "active"]
        ELSE kept[i]]

\* acceptOrder(orderId), with at most k ChatSync.init calls
AcceptOrderId(orderId, k) ==
  LET o         == CHAT_CHANNEL
      persisted == GetMessages(chats, o)
      seeds     == IF Len(persisted) > 0 THEN <<>> ELSE InitialSends(now)
      un0       == ClearUnread(unreadMap, o)
      ch1       == SendAllChats(chats, o, seeds, now)
      un1       == SendAllUnread(un0, o, seeds)
      h0        == HistRead(hist, o)
  IN IF ~HasOrder(orders, orderId) THEN UNCHANGED vars ELSE
     /\ syncInits < k
     /\ orders' = AcceptedOrders(orders, orderId)
     /\ activeOrderId' = orderId
     /\ orderStep' = "pickup"
     /\ messages' = IF Len(persisted) > 0
                    THEN [i \in 1..Len(persisted) |-> SyncMsgToLocal(persisted[i])]
                    ELSE [i \in 1..Len(INITIAL_MESSAGES) |->
                            Local(LocalId(INITIAL_MESSAGES[i].id),
                                  INITIAL_MESSAGES[i].from)]
     /\ chats' = ch1
     /\ unreadMap' = un1
     /\ lastSeenTimestamp' =
          [lastSeenTimestamp EXCEPT ![o] = LastTimestamp(GetMessages(ch1, o))]
     /\ syncInits' = syncInits + 1
     /\ notified' = <<>>
     /\ hist' = HistSyncInit(HistWrite(h0, o, seeds, FALSE, FALSE, "driver"))
     /\ UNCHANGED <<now, enabledServices, inflight, bridgeVars, msgIdCounter, hideTimers, epoch>>

\* the Accept button of the first mock order
AcceptOrder == AcceptOrderId(MOCK_ORDER, MaxInits)

\* declineOrder(orderId)
DeclineOrder(orderId) ==
  /\ orders' = SelectSeq(orders, LAMBDA x : x.id # orderId)
  /\ UNCHANGED <<now, enabledServices, orderStep, inflight, storageVars, bridgeVars, syncVars,
                 driverVars, epoch, hist>>

\* RideFlowWS.on('new_order'): the order is put in front of the list
NewOrder(orderId) ==
  /\ Len(orders) < MaxOrders
  /\ ~HasOrder(orders, orderId)
  /\ orders' = <<[id |-> orderId, status |-> "incoming"]>> \o orders
  /\ UNCHANGED <<now, enabledServices, orderStep, inflight, storageVars, bridgeVars, syncVars,
                 driverVars, epoch, hist>>

\* ChatSync._checkForNewMessages(orderId), run by the storage listener and
\* by the 1.5 s interval registered in init
CheckForNewMessages ==
  LET o        == CHAT_CHANNEL
      msgs     == GetMessages(chats, o)
      lastSeen == SeenOr(lastSeenTimestamp, o)
      newMsgs  == NewMsgs(msgs, lastSeen)
      shown    == Listener(newMsgs, activeOrderId)
  IN /\ syncInits > 0
     /\ Len(notified) + Len(newMsgs) <= MaxDelivered
     /\ Len(messages) + Len(shown) <= MaxDisplay
     /\ IF Len(newMsgs) = 0
        THEN UNCHANGED <<lastSeenTimestamp, notified, messages>>
        ELSE /\ lastSeenTimestamp' =
                  [lastSeenTimestamp EXCEPT ![o] = Watermark(newMsgs)]
             /\ notified' = notified \o newMsgs
             /\ messages' = messages \o shown
     /\ hist' = HistSyncPass(hist, newMsgs)
     /\ UNCHANGED <<now, enabledServices, orders, orderStep, inflight, storageVars, bridgeVars, syncInits, activeOrderId,
                    msgIdCounter, hideTimers, epoch>>

\* sendDriverMessage(): the pending image goes through _sendDriverImage,
\* otherwise the trimmed input text is sent unless it is empty
SendDriverMessage(pendingImage, text) ==
  IF ~pendingImage /\ text = ""
  THEN UNCHANGED vars
  ELSE LET o   == CHAT_CHANNEL
           n   == msgIdCounter + 1
           msg == IF pendingImage
                  THEN Msg(DrvImgId(n), "driver", "image", now, FALSE)
                  ELSE Msg(DrvId(n), "driver", "text", now, FALSE)
           ins == IF HasId(GetMessages(chats, o), msg.id) THEN <<>> ELSE <<msg>>
       IN /\ msgIdCounter < MaxCounter
          /\ Len(messages) < MaxDisplay
          /\ msgIdCounter' = n
          /\ messages' = Append(messages, Local(LocalId(n), "driver"))
          /\ IF activeOrderId # NoOrder
             THEN /\ TotalStored(chats) < MaxLog
                  /\ chats' = SendMessageChats(chats, o, msg, now)
                  /\ unreadMap' = SendMessageUnread(unreadMap, o, msg)
                  /\ hist' = HistWrite(hist, o, ins, FALSE, FALSE, "driver")
             ELSE /\ UNCHANGED storageVars
                  /\ hist' = HistLocal(hist)
          /\ UNCHANGED <<now, enabledServices, orders, orderStep, inflight, bridgeVars, syncVars, activeOrderId, hideTimers,
                         epoch>>

\* the driver page is loaded again: `state` and the ChatSync module state
\* are built anew, timers and listeners are gone, localStorage stays
ReloadDriverPage ==
  /\ activeOrderId' = NoOrder
  /\ messages' = <<>>
  /\ msgIdCounter' = MsgIdCounterStart
  /\ hideTimers' = 0
  /\ lastSeenTimestamp' = [o \in OrderIds |-> Undef]
  /\ syncInits' = 0
  /\ notified' = <<>>
  /\ orders' = MOCK_ORDERS
  /\ orderStep' = "pickup"
  /\ enabledServices' = ENABLED_SERVICES
  /\ UNCHANGED <<now, inflight, storageVars, bridgeVars, epoch, hist>>

\* deleteDriverChatHistory(): ChatSync.deleteChatHistory(CHAT_CHANNEL), then
\* the local list is emptied and a system line appended
DeleteDriverChatHistory ==
  IF activeOrderId = NoOrder
  THEN UNCHANGED vars
  ELSE LET o == CHAT_CHANNEL
       IN /\ epoch < MaxClears
          /\ msgIdCounter < MaxCounter
          /\ chats' = ClearChats(chats, o, now)
          /\ msgIdCounter' = msgIdCounter + 1
          /\ messages' = <<Local(LocalId(msgIdCounter + 1), "system")>>
          /\ epoch' = epoch + 1
          /\ unreadMap' = DeleteUnread(unreadMap, o)
          /\ hist' = HistWrite(hist, o, <<>>, TRUE, FALSE, "driver")
          /\ UNCHANGED <<now, enabledServices, orders, orderStep, inflight, bridgeVars, syncVars, activeOrderId,
                         hideTimers>>

\* Array.prototype.indexOf: the first position of x, 0 when absent
IndexOf(seq, x) ==
  IF \E i \in 1..Len(seq) : seq[i] = x
  THEN CHOOSE i \in 1..Len(seq) :
         seq[i] = x /\ \A j \in 1..(i - 1) : seq[j] # x
  ELSE 0

\* Array.prototype.splice(idx, 1)
Splice(seq, idx) ==
  [i \in 1..(Len(seq) - 1) |-> IF i < idx THEN seq[i] ELSE seq[i + 1]]

\* toggleService line 1233 with the test weakened to an empty list
LastServiceNever(len) == len < 1
\* toggleService line 1233: the last enabled service cannot be switched off
LastService(len) == len <= 1

\* toggleService(service)
ToggleService(service) ==
  LET idx == IndexOf(enabledServices, service)
  IN IF idx >= 1
     THEN IF LastService(Len(enabledServices))
          THEN UNCHANGED vars
          ELSE /\ enabledServices' = Splice(enabledServices, idx)
               /\ UNCHANGED <<now, inflight, orders, orderStep, storageVars,
                              bridgeVars, syncVars, driverVars, epoch, hist>>
     ELSE /\ enabledServices' = Append(enabledServices, service)
          /\ UNCHANGED <<now, inflight, orders, orderStep, storageVars,
                         bridgeVars, syncVars, driverVars, epoch, hist>>

\* state.orders.find(o => o.id === id): the index of the first such order
FirstWithId(os, orderId) ==
  CHOOSE i \in 1..Len(os) :
    /\ os[i].id = orderId
    /\ \A j \in 1..(i - 1) : os[j].id # orderId

\* completeTrip(): the order is closed, a system line appended and the
\* chat area scheduled to be hidden
CompleteTrip ==
  /\ activeOrderId # NoOrder
  /\ HasOrder(orders, activeOrderId)
  /\ orders' = [i \in 1..Len(orders) |->
                  IF i = FirstWithId(orders, activeOrderId)
                  THEN [orders[i] EXCEPT !.status = "completed"]
                  ELSE orders[i]]
  /\ orderStep' = "pickup"
  /\ msgIdCounter < MaxCounter
  /\ Len(messages) < MaxDisplay
  /\ hideTimers < MaxTimers
  /\ hideTimers' = hideTimers + 1
  /\ activeOrderId' = NoOrder
  /\ msgIdCounter' = msgIdCounter + 1
  /\ messages' = Append(messages, Local(LocalId(msgIdCounter + 1), "system"))
  /\ hist' = HistLocal(hist)
  /\ UNCHANGED <<now, enabledServices, inflight, storageVars, bridgeVars, syncVars, epoch>>

\* handlePrimaryAction(): the first press marks the pickup and appends a
\* system line, the second one completes the trip
HandlePrimaryAction ==
  IF orderStep = "pickup"
  THEN /\ msgIdCounter < MaxCounter
       /\ Len(messages) < MaxDisplay
       /\ orderStep' = "dropoff"
       /\ msgIdCounter' = msgIdCounter + 1
       /\ messages' = Append(messages, Local(LocalId(msgIdCounter + 1), "system"))
       /\ hist' = HistLocal(hist)
       /\ UNCHANGED <<now, enabledServices, orders, inflight, storageVars, bridgeVars, syncVars,
                      activeOrderId, hideTimers, epoch>>
  ELSE CompleteTrip

\* the timeout set by completeTrip: state.messages = []
HideChatTimeout ==
  /\ hideTimers > 0
  /\ hideTimers' = hideTimers - 1
  /\ messages' = <<>>
  /\ UNCHANGED <<now, enabledServices, orders, orderStep, inflight, storageVars, bridgeVars, syncVars, activeOrderId,
                 msgIdCounter, epoch, hist>>

\* ------------------------------------- exported functions, called directly
\* ChatSync.sendMessage(orderId, msg) with a caller-built message
ChatSyncSendMessage(o, id, sender, ts) ==
  LET msg == Msg(id, sender, "text", ts, FALSE)
      dup == HasId(GetMessages(chats, o), id)
      ins == IF dup THEN <<>> ELSE <<msg>>
  IN /\ TotalStored(chats) < MaxLog
     /\ unreadMap[o] < MaxUnread
     /\ chats' = SendMessageChats(chats, o, msg, now)
     /\ unreadMap' = SendMessageUnread(unreadMap, o, msg)
     /\ hist' = HistWrite(hist, o, ins, FALSE,
                          sender # "driver" /\ (dup \/ sender # "customer"),
                          "library")
     /\ UNCHANGED <<now, enabledServices, orders, orderStep, inflight, bridgeVars, syncVars, driverVars, epoch>>

\* ChatSync.init(orderId, onNewMessage), called directly, at most k times
ChatSyncInitUpTo(o, k) ==
  /\ syncInits < k
  /\ lastSeenTimestamp' =
       [lastSeenTimestamp EXCEPT ![o] = LastTimestamp(GetMessages(chats, o))]
  /\ syncInits' = syncInits + 1
  /\ notified' = <<>>
  /\ hist' = HistSyncInit(hist)
  /\ UNCHANGED <<now, enabledServices, orders, orderStep, inflight, storageVars, bridgeVars, driverVars, epoch>>

ChatSyncInit(o) == ChatSyncInitUpTo(o, MaxInits)

\* ChatSync.markAllRead(orderId)
ChatSyncMarkAllRead(o) ==
  /\ unreadMap' = ClearUnread(unreadMap, o)
  /\ hist' = HistRead(hist, o)
  /\ UNCHANGED <<now, enabledServices, orders, orderStep, inflight, chats, bridgeVars, syncVars, driverVars, epoch>>

\* API.Chat.markAllRead(orderId): Storage.clearUnread
ApiChatMarkAllRead(o) ==
  /\ unreadMap' = ClearUnread(unreadMap, o)
  /\ hist' = HistRead(hist, o)
  /\ UNCHANGED <<now, enabledServices, orders, orderStep, inflight, chats, bridgeVars, syncVars, driverVars, epoch>>

\* API.Chat.sendMessage(orderId, messageData): Storage.addMessage, then
\* Storage.incrementUnread when the sender is the customer.  id = NoId and
\* ts = NoTs are the calls that leave the field out.
NoId == <<"none", 0>>
NoTs == 0
ApiChatSendMessage(o, id, sender, ts) ==
  LET theId == IF id = NoId THEN GenId(genSeq + 1) ELSE id
      theTs == IF ts = NoTs THEN now ELSE ts
      msg   == Msg(theId, sender, "text", theTs, FALSE)
      dup   == HasId(GetMessages(chats, o), theId)
      ins   == IF dup THEN <<>> ELSE <<msg>>
  IN /\ TotalStored(chats) < MaxLog
     /\ unreadMap[o] < MaxUnread
     /\ id = NoId => genSeq < MaxGen
     /\ genSeq' = IF id = NoId THEN genSeq + 1 ELSE genSeq
     /\ chats' = AddMessage(chats, o, msg, now)
     /\ unreadMap' = IF sender = "customer"
                     THEN IncrementUnread(unreadMap, o) ELSE unreadMap
     /\ hist' = HistWrite(hist, o, ins, FALSE, sender = "customer" /\ dup,
                          "library")
     /\ UNCHANGED <<now, enabledServices, orders, orderStep, inflight, bridgeOrderId, lastSeenTs, seenCount, bridgeInits,
                    delivered, clearedCalls, syncVars, driverVars, epoch>>

\* ChatSync.deleteChatHistory(orderId)
ChatSyncDeleteChatHistory(o) ==
  /\ CountsClears => epoch < MaxClears
  /\ chats' = ClearChats(chats, o, now)
  /\ epoch' = IF CountsClears THEN epoch + 1 ELSE epoch
  /\ unreadMap' = DeleteUnread(unreadMap, o)
  /\ hist' = HistWrite(hist, o, <<>>, TRUE, FALSE, "library")
  /\ UNCHANGED <<now, enabledServices, orders, orderStep, inflight, bridgeVars, syncVars, driverVars>>

\* API.Chat.deleteChatHistory(orderId)
ApiChatDeleteChatHistory(o) ==
  /\ CountsClears => epoch < MaxClears
  /\ chats' = ClearChats(chats, o, now)
  /\ epoch' = IF CountsClears THEN epoch + 1 ELSE epoch
  /\ unreadMap' = DeleteUnread(unreadMap, o)
  /\ hist' = HistWrite(hist, o, <<>>, TRUE, FALSE, "library")
  /\ UNCHANGED <<now, enabledServices, orders, orderStep, inflight, bridgeVars, syncVars, driverVars>>

\* ------------------------------------ calls under a store that is full
\* localStorage.setItem throws (QuotaExceededError) for the keys the store
\* rejects during the call: rc for 'rideflow-chats', ru for
\* 'rideflow-unread-messages'.  threw tells whether the last such call
\* raised to its caller.
Outcome(h, threw) == [h EXCEPT !.threw = threw]

\* ChatSync.sendMessage: _writeChats and _writeUnread are not guarded
QuotaChatSyncSendMessage(o, id, sender, rc, ru) ==
  LET msg == Msg(id, sender, "text", now, FALSE)
      dup == HasId(GetMessages(chats, o), id)
      ins == IF dup THEN <<>> ELSE <<msg>>
  IN /\ rc \/ (ru /\ sender # "driver")
     /\ TotalStored(chats) < MaxLog
     /\ hist.custSent[o] < MaxUnread
     /\ chats' = IF rc THEN chats ELSE SendMessageChats(chats, o, msg, now)
     /\ unreadMap' = unreadMap
     /\ hist' = Outcome(IF rc THEN hist
                        ELSE HistWrite(hist, o, ins, FALSE, TRUE, "library"),
                        TRUE)
     /\ UNCHANGED <<now, enabledServices, orders, orderStep, inflight, bridgeVars, syncVars, driverVars, epoch>>

\* ChatSyncBridge.sendTextMessage: _writeChats is not guarded, the write of
\* the unread map is (try / catch)
QuotaSendTextMessage(rc, ru) ==
  LET o   == bridgeOrderId
      msg == Msg(GenId(genSeq + 1), "customer", "text", now, FALSE)
  IN /\ rc \/ ru
     /\ bridgeOrderId # NoOrder
     /\ TotalStored(chats) < MaxLog
     /\ hist.custSent[o] < MaxUnread
     /\ genSeq < MaxGen
     /\ genSeq' = IF rc THEN genSeq ELSE genSeq + 1
     /\ chats' = IF rc THEN chats ELSE PersistChats(chats, o, msg, now)
     /\ unreadMap' = unreadMap
     /\ hist' = Outcome(IF rc THEN hist
                        ELSE HistWrite(hist, o, <<msg>>, FALSE, TRUE, "customer"),
                        rc)
     /\ UNCHANGED <<now, enabledServices, orders, orderStep, inflight, bridgeOrderId, lastSeenTs, seenCount, bridgeInits,
                    delivered, clearedCalls, syncVars, driverVars, epoch>>

\* ChatSync.markAllRead: _writeUnread is not guarded
QuotaChatSyncMarkAllRead(o) ==
  /\ hist' = Outcome(hist, TRUE)
  /\ UNCHANGED <<now, enabledServices, orders, orderStep, inflight, storageVars, bridgeVars, syncVars, driverVars, epoch>>

\* ChatSync.deleteChatHistory / ChatSyncBridge.deleteChatHistory:
\* _writeChats is not guarded; the bridge has not reset its pointers yet
QuotaDeleteChatHistory(o) ==
  /\ hist' = Outcome(hist, TRUE)
  /\ UNCHANGED <<now, enabledServices, orders, orderStep, inflight, storageVars, bridgeVars, syncVars, driverVars, epoch>>

\* API.Chat.sendMessage: Storage._safeSet catches and returns false
QuotaApiChatSendMessage(o, id, sender, rc, ru) ==
  LET msg == Msg(id, sender, "text", now, FALSE)
      dup == HasId(GetMessages(chats, o), id)
      ins == IF dup THEN <<>> ELSE <<msg>>
  IN /\ (rc /\ ~dup) \/ (ru /\ sender = "customer")
     /\ TotalStored(chats) < MaxLog
     /\ hist.custSent[o] < MaxUnread
     /\ unreadMap[o] < MaxUnread
     /\ chats' = IF rc THEN chats ELSE AddMessage(chats, o, msg, now)
     /\ unreadMap' = IF sender = "customer" /\ ~ru
                     THEN IncrementUnread(unreadMap, o) ELSE unreadMap
     /\ hist' = Outcome(HistWrite(hist, o, IF rc THEN <<>> ELSE ins, FALSE,
                                  TRUE, "library"), FALSE)
     /\ UNCHANGED <<now, enabledServices, orders, orderStep, inflight, bridgeVars, syncVars, driverVars, epoch>>

\* ------------------------------------------------- text typed into a chat
\* ChatSyncBridge.sendTextMessage(text): the text goes into msg.content,
\* no test of it
SendTextMessageText(text) == BridgeSendText("text", text)

\* sendMessage() of the customer page: input.value.trim(), return when
\* empty, else ChatSyncBridge.sendTextMessage(text)
PageSendMessage(input) ==
  LET text == Trim(input)
  IN IF Len(text) = 0 THEN UNCHANGED vars ELSE SendTextMessageText(text)

\* sendDriverMessage() with input.value = input
SendDriverMessageInput(pendingImage, input) ==
  SendDriverMessage(pendingImage, IF Len(Trim(input)) = 0 THEN "" ELSE "ok")

\* ------------------------------ sends as two accesses of the shared store
\* The two tabs are separate browsing contexts on one localStorage: a send
\* is a getItem, a change of the parsed copy and a setItem, and the other
\* tab's accesses can fall between the two.

\* the blob handed to setItem when the store now holds cur
WriteBackMerged(read, cur) == cur

\* _writeChats(chats): the copy parsed by the handler's own _readChats
WriteBack(read, cur) == read

\* ChatSyncBridge.sendTextMessage up to `const chats = _readChats()` of
\* _persist
SendTextMessageRead ==
  /\ bridgeOrderId # NoOrder
  /\ inflight["customer"] = Idle
  /\ genSeq < MaxGen
  /\ genSeq' = genSeq + 1
  /\ inflight' = [inflight EXCEPT !["customer"] =
       [blob |-> chats, o |-> bridgeOrderId,
        msg |-> Msg(GenId(genSeq + 1), "customer", "text", now, FALSE)]]
  /\ UNCHANGED <<now, enabledServices, orders, orderStep, storageVars, bridgeOrderId, lastSeenTs, seenCount,
                 bridgeInits, delivered, clearedCalls, syncVars, driverVars,
                 epoch, hist>>

\* ChatSyncBridge._persist from the record creation to the unread write
PersistWrite ==
  /\ inflight["customer"] # Idle
  /\ LET f == inflight["customer"]
     IN /\ TotalStored(f.blob) < MaxLog
        /\ unreadMap[f.o] < MaxUnread
        /\ chats' = PersistChats(WriteBack(f.blob, chats), f.o, f.msg, now)
        /\ unreadMap' = IncrementUnread(unreadMap, f.o)
  /\ inflight' = [inflight EXCEPT !["customer"] = Idle]
  /\ hist' = [hist EXCEPT !.done = @ \cup {"customer"}]
  /\ UNCHANGED <<now, enabledServices, orders, orderStep, bridgeVars, syncVars, driverVars, epoch>>

\* ChatSync.sendMessage(orderId, msg) up to `const chats = _readChats()`
ChatSyncSendMessageRead(o, id, sender, ts) ==
  /\ inflight["driver"] = Idle
  /\ inflight' = [inflight EXCEPT !["driver"] =
       [blob |-> chats, o |-> o, msg |-> Msg(id, sender, "text", ts, FALSE)]]
  /\ UNCHANGED <<now, enabledServices, orders, orderStep, storageVars, bridgeVars, syncVars, driverVars, epoch,
                 hist>>

\* ChatSync.sendMessage from the record creation to the unread write
ChatSyncSendMessageWrite ==
  /\ inflight["driver"] # Idle
  /\ LET f == inflight["driver"]
     IN /\ TotalStored(f.blob) < MaxLog
        /\ unreadMap[f.o] < MaxUnread
        /\ chats' = SendMessageChats(WriteBack(f.blob, chats), f.o, f.msg, now)
        /\ unreadMap' = SendMessageUnread(unreadMap, f.o, f.msg)
  /\ inflight' = [inflight EXCEPT !["driver"] = Idle]
  /\ hist' = [hist EXCEPT !.done = @ \cup {"driver"}]
  /\ UNCHANGED <<now, enabledServices, orders, orderStep, bridgeVars, syncVars, driverVars, epoch>>

\* ------------------------------------------------------------------ Next
\* The customer tab's channel against the writes of the driver side, which
\* reach the store through ChatSync.sendMessage / deleteChatHistory.
NextBridge ==
  \/ Tick
  \/ BridgeInit
  \/ SendTextMessage
  \/ SendImageMessage
  \/ CheckForDriverMessages
  \/ \E arg \in {DEMO_ORDER_ID, NoOrder} : BridgeDeleteChatHistory(arg)
  \/ \E id \in CallerIds, ts \in CallerTimes(now) :
        ChatSyncSendMessage(CHAT_CHANNEL, id, "driver", ts)
  \/ ChatSyncDeleteChatHistory(CHAT_CHANNEL)

InitBridge == InitWith("bridge")
SpecBridge == InitBridge /\ [][NextBridge]_vars

\* The customer tab's channel while the driver side only appends.
NextAppend ==
  \/ Tick
  \/ BridgeInit
  \/ SendTextMessage
  \/ CheckForDriverMessages
  \/ \E id \in CallerIds, ts \in CallerTimes(now) :
        ChatSyncSendMessage(CHAT_CHANNEL, id, "driver", ts)

SpecAppend == InitBridge /\ [][NextAppend]_vars

\* The same, with passes of the customer channel whose read fails.
NextReadFail == NextAppend \/ CheckForDriverMessagesReadFailed

SpecReadFail == InitBridge /\ [][NextReadFail]_vars

\* The customer tab's channel against history clears of either side, the
\* driver side sending at the current instant.
NextClear ==
  \/ Tick
  \/ BridgeInit
  \/ SendTextMessage
  \/ CheckForDriverMessages
  \/ ChatSyncSendMessage(CHAT_CHANNEL, DrvId(MsgIdCounterStart + 1), "driver", now)
  \/ ChatSyncDeleteChatHistory(CHAT_CHANNEL)
  \/ BridgeDeleteChatHistory(NoOrder)

SpecClear == InitBridge /\ [][NextClear]_vars

\* The driver tab's dashboard and channel against the customer tab's writes.
NextDriver ==
  \/ Tick
  \/ BridgeInit
  \/ SendTextMessage
  \/ \E arg \in {DEMO_ORDER_ID} : BridgeDeleteChatHistory(arg)
  \/ AcceptOrder
  \/ CheckForNewMessages
  \/ \E p \in BOOLEAN, text \in {"", "ok"} : SendDriverMessage(p, text)
  \/ DeleteDriverChatHistory
  \/ CompleteTrip
  \/ HideChatTimeout

InitDriver == InitWith("driver")
SpecDriver == InitDriver /\ [][NextDriver]_vars

\* The message log and the unread map under every writer.
StoreId == DrvId(MsgIdCounterStart + 1)
NextStore ==
  \/ BridgeInit
  \/ SendTextMessage
  \/ \E o \in OrderIds, sender \in Senders :
        ChatSyncSendMessage(o, StoreId, sender, now)
  \/ \E o \in OrderIds : ChatSyncMarkAllRead(o)
  \/ ApiChatMarkAllRead(CHAT_CHANNEL)
  \/ ChatSyncDeleteChatHistory(CHAT_CHANNEL)
  \/ ApiChatDeleteChatHistory(CHAT_CHANNEL)
  \/ BridgeDeleteChatHistory(NoOrder)
  \/ \E sender \in Senders :
        \/ ApiChatSendMessage(CHAT_CHANNEL, StoreId, sender, now)
        \/ ApiChatSendMessage(CHAT_CHANNEL, NoId, sender, NoTs)

InitStore == InitWith("store")
SpecStore == InitStore /\ [][NextStore]_vars

\* The store of SpecStore, and the calls that meet a full store.
WriteRejected ==
  \/ \E o \in OrderIds, sender \in Senders, rc, ru \in BOOLEAN :
        QuotaChatSyncSendMessage(o, StoreId, sender, rc, ru)
  \/ \E rc, ru \in BOOLEAN : QuotaSendTextMessage(rc, ru)
  \/ QuotaChatSyncMarkAllRead(CHAT_CHANNEL)
  \/ QuotaDeleteChatHistory(CHAT_CHANNEL)
  \/ \E sender \in Senders, rc, ru \in BOOLEAN :
        QuotaApiChatSendMessage(CHAT_CHANNEL, StoreId, sender, rc, ru)

NextQuota == NextStore \/ WriteRejected

SpecQuota == InitStore /\ [][NextQuota]_vars

\* the two tabs sending with their store accesses interleaved; a tab runs
\* one handler at a time, so the customer tab starts no other handler
\* between the read and the write of its own send
CustomerIdle == inflight["customer"] = Idle
NextRace ==
  \/ Tick
  \/ CustomerIdle /\ BridgeInit
  \/ SendTextMessageRead
  \/ PersistWrite
  \/ \E id \in CallerIds :
       ChatSyncSendMessageRead(CHAT_CHANNEL, id, "driver", now)
  \/ ChatSyncSendMessageWrite

\* every writer of the conversations blob, with back-dated and repeated sends
NextStamp ==
  \/ Tick
  \/ BridgeInit
  \/ SendTextMessage
  \/ \E id \in CallerIds, ts \in CallerTimes(now) :
       \/ ChatSyncSendMessage(CHAT_CHANNEL, id, "driver", ts)
       \/ ApiChatSendMessage(CHAT_CHANNEL, id, "driver", ts)
  \/ ChatSyncDeleteChatHistory(CHAT_CHANNEL)

SpecStamp == InitStore /\ [][NextStamp]_vars

\* both channels with ties, back-dated sends and clears, within one minute
NextLate ==
  \/ BridgeInit
  \/ SendTextMessage
  \/ CheckForDriverMessages
  \/ \E ts \in CallerTimes(now) :
       ChatSyncSendMessage(CHAT_CHANNEL, StoreId, "driver", ts)
  \/ ChatSyncDeleteChatHistory(CHAT_CHANNEL)
  \/ ChatSyncInit(CHAT_CHANNEL)
  \/ CheckForNewMessages

InitLate == InitWith("late")
SpecLate == InitLate /\ [][NextLate]_vars

\* the send entry points of both dashboards with typed text
NextEmpty ==
  \/ Tick
  \/ BridgeInit
  \/ AcceptOrder
  \/ \E input \in ChatInputs : PageSendMessage(input)
  \/ \E text \in ChatInputs : SendTextMessageText(text)
  \/ \E p \in BOOLEAN, input \in ChatInputs : SendDriverMessageInput(p, input)

InitEmpty == InitWith("empty")
SpecEmpty == InitEmpty /\ [][NextEmpty]_vars

\* the driver dashboard over page loads
NextReload ==
  \/ Tick
  \/ AcceptOrder
  \/ \E p \in BOOLEAN, text \in {"", "ok"} : SendDriverMessage(p, text)
  \/ ReloadDriverPage

SpecReload == InitStore /\ [][NextReload]_vars

\* both channels initialised more than once, every init leaving its poll
\* timer and storage listener behind: each of them runs the same pass
NextReinit ==
  \/ Tick
  \/ BridgeInitUpTo(MaxReinits)
  \/ ChatSyncInitUpTo(CHAT_CHANNEL, MaxReinits)
  \/ SendTextMessage
  \/ \E id \in CallerIds, ts \in CallerTimes(now) :
       ChatSyncSendMessage(CHAT_CHANNEL, id, "driver", ts)
  \/ CheckForDriverMessages
  \/ CheckForNewMessages

SpecReinit == InitStore /\ [][NextReinit]_vars

\* the customer facade called before and after its init, next to the
\* other tab's writes
NextPreInit ==
  \/ Tick
  \/ BridgeInit
  \/ SendTextMessage
  \/ SendImageMessage
  \/ BridgeDeleteChatHistory(NoOrder)
  \/ \E sender \in {"driver", "customer"} :
       ChatSyncSendMessage(CHAT_CHANNEL, StoreId, sender, now)

SpecPreInit == InitStore /\ [][NextPreInit]_vars

InitRace == InitWith("race")
SpecRace == InitRace /\ [][NextRace]_vars

\* the interleaved sends under the eyes of the customer channel
NextRacePass == NextRace \/ (CustomerIdle /\ CheckForDriverMessages)

SpecRacePass == InitRace /\ [][NextRacePass]_vars

\* ============================================================ properties
NonDecreasing(seq) ==
  \A i, j \in 1..Len(seq) : i < j => seq[i].timestamp <= seq[j].timestamp
StrictlyIncreasing(seq) ==
  \A i, j \in 1..Len(seq) : i < j => seq[i].timestamp < seq[j].timestamp
IdsOf(seq) == {seq[i].id : i \in 1..Len(seq)}
ExactlyOnce(owed, noClear, synced, calls) ==
  noClear => \A id \in owed : /\ Count(calls, id) <= 1
                              /\ synced => Count(calls, id) = 1

\* C1: with no history clear since init, every message the other party
\* appended after init is passed to the listener at most once, and exactly
\* once as soon as a reconcile pass has run after the append.
C1_ExactlyOnce ==
  /\ ExactlyOnce(hist.bOwed, hist.bNoClear, hist.bSynced, delivered)
  /\ ExactlyOnce(hist.sOwed, hist.sNoClear, hist.sSynced, notified)

\* C2: ChatSync never passes a message of sender 'driver' to onNewMessage,
\* ChatSyncBridge never passes a message of sender 'customer' to
\* onDriverMessage.
C2_SelfFiltering ==
  /\ \A i \in 1..Len(notified) : notified[i].sender # "driver"
  /\ \A i \in 1..Len(delivered) : delivered[i].sender # "customer"

\* C3: after sendMessage / addMessage was called with an id, the stored
\* sequence holds exactly one message with that id, and a call with an id
\* that is already stored leaves the stored sequence as it was.
Idempotent(o, id) ==
  /\ Count(GetMessages(chats', o), id) = 1
  /\ HasId(GetMessages(chats, o), id)
       => GetMessages(chats', o) = GetMessages(chats, o)
C3_IdempotentAppend ==
  [][\A o \in OrderIds, sender \in Senders :
       /\ ChatSyncSendMessage(o, StoreId, sender, now) => Idempotent(o, StoreId)
       /\ ApiChatSendMessage(o, StoreId, sender, now) => Idempotent(o, StoreId)]_vars

\* C3 witness: the one stored message of a conversation that is never
\* cleared was sent twice (the second send only raised the unread counter).
C3_Witness ==
  /\ Len(GetMessages(chats, MOCK_ORDER)) = 1
  /\ GetMessages(chats, MOCK_ORDER)[1].id = StoreId
  /\ GetMessages(chats, MOCK_ORDER)[1].sender = "customer"
  /\ unreadMap[MOCK_ORDER] = 2

\* C4: once a reconcile pass has delivered messages, a further pass with no
\* write to the conversation in between delivers nothing.
C4_WatermarkMonotone ==
  [][/\ (CheckForDriverMessages /\ hist.bQuiet) => delivered' = delivered
     /\ (CheckForNewMessages /\ hist.sQuiet) => notified' = notified]_vars

\* C5: a reconcile pass of the customer channel calls onHistoryCleared once
\* when another tab cleared the history since the previous pass and the
\* channel had observed at least one message, does not call it otherwise,
\* and passes to onDriverMessage no message inserted before a clear.
C5_ClearDetection ==
  [][CheckForDriverMessages =>
       /\ clearedCalls' = clearedCalls + (IF hist.bPending THEN 1 ELSE 0)
       /\ \A i \in (Len(delivered) + 1)..Len(delivered') :
            delivered'[i].gen = epoch]_vars

\* C6: after one side deleted the history and the other side's channel has
\* run a pass, the other side has been notified: the driver's message list
\* holds no chat message, the customer's onChatCleared was called.
NoChatEntries(list) == \A i \in 1..Len(list) : list[i].from = "system"
C6_DeletePropagates ==
  /\ hist.cDel = "passed" => NoChatEntries(messages)
  /\ hist.dDel # "missed"

\* C7: the messages passed to a tab's listener since init have
\* non-decreasing timestamps.
C7_DeliveryOrder ==
  /\ NonDecreasing(delivered)
  /\ NonDecreasing(notified)

C9_UnreadLifecycle ==
  /\ [](\A o \in OrderIds :
          /\ hist.exact[o] => GetUnreadCount(unreadMap, o) = hist.custSent[o]
          /\ chats[o] = NoConv => GetUnreadCount(unreadMap, o) = 0)
  /\ [][\A o \in OrderIds :
          ChatSyncMarkAllRead(o) => GetUnreadCount(unreadMap', o) = 0]_vars

\* C9 witness: two customer messages counted, none read.
C9_Witness ==
  /\ hist.exact[CHAT_CHANNEL]
  /\ hist.custSent[CHAT_CHANNEL] = 2
  /\ GetUnreadCount(unreadMap, CHAT_CHANNEL) = 2
  /\ bridgeInits > 0

\* C10: a send raises the unread count by one when it inserts a message
\* whose sender is not 'driver', and leaves it unchanged otherwise.
UnreadStep(o, id, sender) ==
  GetUnreadCount(unreadMap', o) = GetUnreadCount(unreadMap, o)
    + (IF sender # "driver" /\ ~HasId(GetMessages(chats, o), id) THEN 1 ELSE 0)
C10_UnreadPerInsert ==
  [][\A o \in OrderIds, sender \in Senders :
       /\ ChatSyncSendMessage(o, StoreId, sender, now)
            => UnreadStep(o, StoreId, sender)
       /\ ApiChatSendMessage(o, StoreId, sender, now)
            => UnreadStep(o, StoreId, sender)]_vars
\* C11: a reconcile pass that runs after init with no write to the
\* conversation since init passes no message to the listener and reports no
\* clear, whatever the log held at init.
C11_InitNoReplay ==
  [][/\ (CheckForDriverMessages /\ hist.bFresh)
          => delivered' = delivered /\ clearedCalls' = clearedCalls
     /\ (CheckForNewMessages /\ hist.sFresh) => notified' = notified]_vars
\* C12: after markAllRead(o) every message stored for o has read = true
\* and the unread count of o is 0.
AllRead(msgs) == \A i \in 1..Len(msgs) : msgs[i].read
C12_MarkAllRead ==
  [][\A o \in OrderIds :
       (ChatSyncMarkAllRead(o) \/ ApiChatMarkAllRead(o))
         => /\ AllRead(GetMessages(chats', o))
            /\ GetUnreadCount(unreadMap', o) = 0]_vars
\* C13: a call that meets a rejected write does not raise to its caller
\* and leaves the persisted conversations and the unread map as they were.
C13_WriteFailureContained ==
  [][WriteRejected => /\ ~hist'.threw
                      /\ chats' = chats
                      /\ unreadMap' = unreadMap]_vars
\* C14: a reconcile pass whose read of the conversations fails observes
\* nothing: it calls neither onDriverMessage nor onChatCleared and leaves
\* the watermark and the observed count as they were, so that the later
\* passes deliver what they would have delivered without it.
C14_ReadFailureSkipsTick ==
  [][CheckForDriverMessagesReadFailed =>
       /\ delivered' = delivered
       /\ clearedCalls' = clearedCalls
       /\ lastSeenTs' = lastSeenTs
       /\ seenCount' = seenCount]_vars
\* C15 (as stated): a pass that sees fewer messages than the observed
\* count sets the watermark to the current time, the observed count to 0,
\* calls onChatCleared and delivers nothing.
Shrank == Len(GetMessages(chats, DEMO_ORDER_ID)) < CountOr(seenCount, DEMO_ORDER_ID)
ClearHandled(ts) ==
  /\ lastSeenTs'[DEMO_ORDER_ID] = ts
  /\ seenCount'[DEMO_ORDER_ID] = 0
  /\ clearedCalls' = clearedCalls + 1
  /\ delivered' = delivered
C15_ResetToNow ==
  [][(CheckForDriverMessages /\ Shrank) => ClearHandled(now)]_vars

\* C15 (amended): a pass that sees fewer messages than the observed count
\* sets the watermark to epoch zero, the observed count to 0, calls
\* onChatCleared and delivers nothing.
C15_ResetToEpochZero ==
  [][(CheckForDriverMessages /\ Shrank) => ClearHandled(EpochZero)]_vars

\* C15 witness: the customer channel has reported a clear and stands at
\* epoch zero with nothing observed.
C15_Witness ==
  /\ clearedCalls = 1
  /\ lastSeenTs[DEMO_ORDER_ID] = EpochZero
  /\ seenCount[DEMO_ORDER_ID] = 0
  /\ epoch = 1
\* C16: deleteChatHistory(c) leaves c's record in the map with an empty
\* message sequence and its createdAt, creates no record when c has none,
\* and leaves every other conversation as it was.
DeleteFrame(o) ==
  /\ chats[o] = NoConv => chats'[o] = NoConv
  /\ chats[o] # NoConv => /\ chats'[o] # NoConv
                          /\ chats'[o].messages = <<>>
                          /\ chats'[o].createdAt = chats[o].createdAt
  /\ \A p \in OrderIds \ {o} : chats'[p] = chats[p]
C16_DeleteFrame ==
  [][\A o \in OrderIds :
       (\/ ChatSyncDeleteChatHistory(o)
        \/ ApiChatDeleteChatHistory(o)
        \/ BridgeDeleteChatHistory(o)) => DeleteFrame(o)]_vars

\* C16 witness: a conversation that was cleared keeps its record, next to
\* another conversation that still holds its message.
C16_Witness ==
  /\ chats[CHAT_CHANNEL] # NoConv
  /\ GetMessages(chats, CHAT_CHANNEL) = <<>>
  /\ Len(GetMessages(chats, MOCK_ORDER)) = 1

\* C17: after the customer's own ChatSyncBridge.deleteChatHistory, a pass
\* of its channel does not call onChatCleared as long as no other clear
\* happened, and passes to onDriverMessage only driver messages written
\* after the delete.
C17_OwnDelete ==
  [][(CheckForDriverMessages /\ hist.ownGen # Undef) =>
       /\ epoch = hist.ownGen => clearedCalls' = clearedCalls
       /\ \A i \in (Len(delivered) + 1)..Len(delivered') :
            /\ delivered'[i].sender = "driver"
            /\ delivered'[i].gen >= hist.ownGen]_vars

\* C17 witness: after its own delete the customer channel has delivered a
\* driver message written later, and has reported no clear.
C17_Witness ==
  /\ hist.ownGen = 1
  /\ clearedCalls = 0
  /\ Len(delivered) > 0
  /\ delivered[Len(delivered)].gen = 1

\* the log a send that read f.blob leaves in conversation f.o
LastWriterLog(f) ==
  LET old == GetMessages(f.blob, f.o)
  IN IF f.msg.sender # "customer" /\ HasId(old, f.msg.id)
     THEN old ELSE Append(old, f.msg)

\* C18: a send writes back the blob it read plus its own message, whatever
\* the store holds by then: a message the other tab wrote between the read
\* and the write of this send is absent from the log afterwards, although
\* both sends completed.
C18_LostUpdate ==
  [][\A t \in Tabs :
       (inflight[t] # Idle /\ inflight'[t] = Idle) =>
         LET f   == inflight[t]
             cur == GetMessages(chats, f.o)
         IN /\ GetMessages(chats', f.o) = LastWriterLog(f)
            /\ \A i \in 1..Len(cur) :
                 (~HasId(GetMessages(f.blob, f.o), cur[i].id)
                    /\ cur[i].id # f.msg.id)
                 => ~HasId(GetMessages(chats', f.o), cur[i].id)]_vars

\* C18 witness: both tabs completed a send, the customer's unread increment
\* is in the store, and the log holds the driver's message alone.
C18_Witness ==
  /\ hist.done = Tabs
  /\ \A t \in Tabs : inflight[t] = Idle
  /\ unreadMap[CHAT_CHANNEL] = 1
  /\ Len(GetMessages(chats, CHAT_CHANNEL)) = 1
  /\ GetMessages(chats, CHAT_CHANNEL)[1].sender = "driver"

\* C19: in every stored state a conversation with a non-empty log has
\* lastMessageTime equal to the timestamp of the last message of the log,
\* whichever of ChatSync.sendMessage (repeated ids included),
\* ChatSyncBridge._persist and Storage.addMessage wrote it.
C19_LastMessageTime ==
  \A o \in OrderIds :
    LET msgs == GetMessages(chats, o)
    IN Len(msgs) > 0 => chats[o].lastMessageTime = msgs[Len(msgs)].timestamp

\* C19 witness: a log whose last message is older than the one before it
\* and older than the clock; lastMessageTime is that last message's time.
C19_Witness ==
  LET msgs == GetMessages(chats, CHAT_CHANNEL)
  IN /\ Len(msgs) = 2
     /\ msgs[2].timestamp < msgs[1].timestamp
     /\ msgs[2].timestamp < now
     /\ chats[CHAT_CHANNEL].lastMessageTime = msgs[2].timestamp

Range(seq) == {seq[i] : i \in 1..Len(seq)}

\* C20 as stated: a message of the other party appended with a timestamp
\* at or below the channel's watermark is never handed to the channel's
\* callback afterwards.
C20_LateDropped ==
  \A x \in hist.late :
    /\ x.ch = "bridge" => x.m \notin Range(delivered)
    /\ x.ch = "sync" => x.m \notin Range(notified)

\* C20: a message of the other party appended with a timestamp at or below
\* the channel's watermark is not handed to the channel's callback
\* afterwards, unless the customer channel has seen the log shrink since
\* the append and reset its watermark to epoch zero.
C20_LateDroppedUntilReset ==
  \A x \in hist.late :
    /\ x.ch = "bridge" =>
         (x.m \in Range(delivered) => clearedCalls > x.calls)
    /\ x.ch = "sync" => x.m \notin Range(notified)

\* C20 witness: each channel has run a pass over a log that holds a message
\* appended at or below its watermark, and has not delivered it.
C20_Witness ==
  LET msgs == GetMessages(chats, CHAT_CHANNEL)
  IN /\ \E x \in hist.late :
          /\ x.ch = "bridge" /\ x.m \in Range(msgs)
          /\ x.m \notin Range(delivered)
          /\ x.calls = clearedCalls
          /\ seenCount[CHAT_CHANNEL] = Len(msgs)
     /\ \E x \in hist.late :
          /\ x.ch = "sync" /\ x.m \in Range(msgs)
          /\ x.m \notin Range(notified)
          /\ Len(notified) > 0

\* C21: a pass of the customer channel that follows a clear by the other
\* tab and finds the log refilled to at least the observed count does not
\* call onChatCleared, and no later pass calls it unless a further clear
\* happened since the pass before.
C21_BlindSpot ==
  [][CheckForDriverMessages =>
       /\ (hist.bPending /\ ~Shrank) =>
            (clearedCalls' = clearedCalls /\ ~hist'.bPending)
       /\ ~hist.bPending => clearedCalls' = clearedCalls]_vars

\* C21 witness: the other tab cleared a log the channel had observed and
\* refilled it before the next pass; the pass ran and reported nothing.
C21_Witness ==
  /\ hist.bMissed
  /\ epoch = 1
  /\ clearedCalls = 0
  /\ Len(GetMessages(chats, DEMO_ORDER_ID)) >= 1
  /\ seenCount[DEMO_ORDER_ID] = Len(GetMessages(chats, DEMO_ORDER_ID))

\* C22: a send of an empty or white-space-only text changes neither the
\* message log nor the unread map, through the customer page's
\* sendMessage, through ChatSyncBridge.sendTextMessage and through the
\* driver's sendDriverMessage (no image pending).
IsBlank(input) == Len(Trim(input)) = 0
C22_EmptySendNoOp ==
  [][\A input \in {i \in ChatInputs : IsBlank(i)} :
       (\/ PageSendMessage(input)
        \/ SendTextMessageText(input)
        \/ SendDriverMessageInput(FALSE, input))
       => UNCHANGED storageVars]_vars

\* C23: as long as no tab has executed deleteChatHistory, the customer
\* channel never calls onChatCleared, whatever way the sends of the two tabs
\* interleave their reads and writes of the store.
C23_NoFalseClear == epoch = 0 => clearedCalls = 0

\* C24: each sendDriverMessage / _sendDriverImage call with content, made
\* while an order is active, adds one message to the shared log, also when
\* the page was loaded again over a log of an earlier page session.
C24_DriverMessagePersisted ==
  [][((\E p \in BOOLEAN : SendDriverMessage(p, "ok")) \/ SendDriverMessage(TRUE, ""))
       /\ activeOrderId # NoOrder
     => Len(GetMessages(chats', CHAT_CHANNEL))
          = Len(GetMessages(chats, CHAT_CHANNEL)) + 1]_vars

\* C25: once init has been called more than once in a tab, each message of
\* the other party is passed to the listener set by the last init at most
\* once.
NoRepeat(calls, other) ==
  \A i, j \in 1..Len(calls) :
    (i < j /\ calls[i].sender = other) => calls[i].id # calls[j].id
C25_RepeatedInit ==
  /\ bridgeInits > 1 => NoRepeat(delivered, "driver")
  /\ syncInits > 1 => NoRepeat(notified, "customer")

\* C26: while ChatSyncBridge.init has not been called, getHistory returns
\* the empty list, and sendTextMessage, sendImageMessage and
\* deleteChatHistory() without argument leave the conversations map and the
\* unread map as they are.
C26_BeforeInit ==
  /\ [](bridgeOrderId = NoOrder => GetHistory = <<>>)
  /\ [][(bridgeOrderId = NoOrder
           /\ (\/ SendTextMessage
               \/ SendImageMessage
               \/ BridgeDeleteChatHistory(NoOrder)))
        => UNCHANGED storageVars]_vars

\* C26 witness: the other tab has filled the log and the unread counter of
\* the demo conversation, the customer facade has no active order and
\* reports an empty history.
C26_Witness ==
  /\ bridgeOrderId = NoOrder
  /\ Len(GetMessages(chats, DEMO_ORDER_ID)) > 0
  /\ unreadMap[DEMO_ORDER_ID] > 0
  /\ GetHistory = <<>>

\* C27: every deleteChatHistory (ChatSync, ChatSyncBridge, API.Chat) leaves
\* the unread map as it is, and every markAllRead leaves the conversations
\* map as it is.
C27_DeleteKeepsUnread ==
  [][/\ (\E o \in OrderIds : \/ ChatSyncDeleteChatHistory(o)
                             \/ ApiChatDeleteChatHistory(o)
                             \/ BridgeDeleteChatHistory(o))
          => unreadMap' = unreadMap
     /\ (\E o \in OrderIds : ChatSyncMarkAllRead(o) \/ ApiChatMarkAllRead(o))
          => chats' = chats]_vars

\* C27 witness: a conversation with an empty log and a positive unread
\* count.
C27_Witness ==
  /\ chats[CHAT_CHANNEL] # NoConv
  /\ GetMessages(chats, CHAT_CHANNEL) = <<>>
  /\ unreadMap[CHAT_CHANNEL] > 0

\* ----------------------------------------------- the driver's order list
\* the ids the Accept and Decline buttons are rendered for (renderOrders)
IncomingIds(os) ==
  {os[i].id : i \in {j \in 1..Len(os) : os[j].status = "incoming"}}

NextOrders ==
  \/ Tick
  \/ NewOrder(SIMULATED_NEW_ORDER)
  \/ \E id \in IncomingIds(orders) : AcceptOrderId(id, MaxAccepts)
  \/ \E id \in IncomingIds(orders) : DeclineOrder(id)
  \/ HandlePrimaryAction
  \/ HideChatTimeout

SpecOrders == InitStore /\ [][NextOrders]_vars

ActiveIdx(os) == {i \in 1..Len(os) : os[i].status = "active"}

\* C28: at most one order of state.orders has status 'active', and
\* state.activeOrderId is non-null exactly when such an order exists and
\* then equals its id
C28_OneActiveOrder ==
  /\ Cardinality(ActiveIdx(orders)) <= 1
  /\ (activeOrderId # NoOrder) <=> (ActiveIdx(orders) # {})
  /\ \A i \in ActiveIdx(orders) : orders[i].id = activeOrderId

\* ------------------------------------------------- the service toggles
NextServices ==
  \/ Tick
  \/ \E s \in Services : ToggleService(s)
  \/ NewOrder(SIMULATED_NEW_ORDER)
  \/ \E id \in IncomingIds(orders) : DeclineOrder(id)

SpecServices == InitStore /\ [][NextServices]_vars

NoDuplicates(seq) ==
  \A i, j \in 1..Len(seq) : i # j => seq[i] # seq[j]

\* C29: state.enabledServices is never empty and never holds a service
\* twice, and toggling the only enabled service leaves the list as it is
C29_ServicesNeverEmpty ==
  /\ [](Len(enabledServices) >= 1 /\ NoDuplicates(enabledServices))
  /\ [][\A s \in Services :
          (ToggleService(s) /\ enabledServices = <<s>>)
            => enabledServices' = enabledServices]_vars

\* one service is left, so the next press of its button is the rejected one
C29_Witness ==
  /\ Len(enabledServices) = 1
  /\ enabledServices # SubSeq(ENABLED_SERVICES, 1, 1)

====
